---- MODULE Spec2Model ----
(***************************************************************************)
(* Connection lifecycle and shutdown protocol of tcpserver.TCPServer:      *)
(* the accept loop (Serve), the per-connection worker (serve), the live    *)
(* connection registry (conns, guarded by connsMu) and the two             *)
(* termination paths (Close, Shutdown).                                    *)
(*                                                                         *)
(* Every goroutine is a process with a program counter; one action is one  *)
(* step between two accesses of shared state (listener, channels, lock,    *)
(* registry, sockets).                                                     *)
(***************************************************************************)
EXTENDS Naturals, FiniteSets

\* Number of connections the listener hands out in one run.
MaxConns == 2

Conns == 1..MaxConns

\* Lock owner value meaning "nobody".
NoConn == 0

VARIABLES
    Handler,      \* srv.Handler != nil
    TLSConfig,    \* srv.TLSConfig != nil
    lClosed,      \* the listener srv.l has been closed
    closeCh,      \* number of signals buffered in srv.closeCh (capacity 1)
    conns,        \* keys of the registry map srv.conns
    connsMu,      \* srv.connsMu: [writer, pending, readers]
    acPc,         \* Serve: "init", "accept", "acceptErr", "done"
    acErr,        \* Serve: err of the last l.Accept()
    serveErr,     \* Serve: returned error ("none" until it returns)
    wpc,          \* serve(conn): position of each connection's worker
    connClosed,   \* conn.Close() has been called on the socket
    connCloseCh,  \* signals buffered in the worker's closeCh (capacity 1)
    received,     \* history: the handler received the signal from its closeCh
    hs,           \* history: tlsConn.Handshake() of the worker: "none", "ok", "failed"
    calls,        \* history: how many times srv.Handler.Serve was called for the conn
    clPc,         \* Close: "idle", "signal", "rlock", "iter", "done"
    clErr,        \* Close: err
    clTodo,       \* Close: registry entries the range loop has not visited yet
    clLErr,       \* history: what srv.l.Close() returned to Close
    sdPc,         \* Shutdown: "idle","signal","rlock","iter","wait","poll","force","done"
    sdErr,        \* Shutdown: err
    sdTodo,       \* Shutdown: registry entries the current range loop has not visited
    sdLErr,       \* history: what srv.l.Close() returned to Shutdown
    sdRet,        \* history: "none", "natural" (len == 0 branch), "deadline" (ctx.Done branch)
    ctxDone       \* ctx.Done() of Shutdown's context is closed

vars == <<Handler, TLSConfig, lClosed, closeCh, conns, connsMu, acPc, acErr,
          serveErr, wpc, connClosed, connCloseCh, received, hs, calls, clPc, clErr,
          clTodo, clLErr, sdPc, sdErr, sdTodo, sdLErr, sdRet, ctxDone>>

srvVars   == <<Handler, TLSConfig>>
acVars    == <<acPc, acErr, serveErr>>
clVars    == <<clPc, clErr, clTodo, clLErr>>
sdVars    == <<sdPc, sdErr, sdTodo, sdLErr, sdRet>>
connVars  == <<connClosed, connCloseCh, received, hs, calls>>

WorkerPcs == {"none", "spawned", "regLock", "handshake", "handler", "recover",
              "close", "unreg", "unregLock", "done"}

TypeOK ==
    /\ Handler \in BOOLEAN /\ TLSConfig \in BOOLEAN /\ lClosed \in BOOLEAN
    /\ closeCh \in 0..1
    /\ conns \subseteq Conns
    /\ connsMu \in [writer : Conns \cup {NoConn}, pending : Conns \cup {NoConn},
                    readers : SUBSET {"Close", "Shutdown"}]
    /\ acPc \in {"init", "accept", "acceptErr", "done"}
    /\ acErr \in {"none", "ErrClosed", "Temporary", "Fatal"}
    /\ serveErr \in {"none", "nil", "ErrClosed", "Fatal"}
    /\ wpc \in [Conns -> WorkerPcs]
    /\ connClosed \in [Conns -> BOOLEAN]
    /\ connCloseCh \in [Conns -> 0..1]
    /\ received \in [Conns -> BOOLEAN]
    /\ hs \in [Conns -> {"none", "ok", "failed"}]
    /\ calls \in [Conns -> 0..1]
    /\ clPc \in {"idle", "signal", "rlock", "iter", "done"}
    /\ clErr \in {"none", "nil", "ErrClosed"}
    /\ clTodo \subseteq Conns
    /\ clLErr \in {"none", "nil", "ErrClosed"}
    /\ sdPc \in {"idle", "signal", "rlock", "iter", "wait", "poll", "force", "done"}
    /\ sdErr \in {"none", "nil", "ErrClosed", "ctxErr"}
    /\ sdTodo \subseteq Conns
    /\ sdLErr \in {"none", "nil", "ErrClosed"}
    /\ sdRet \in {"none", "natural", "deadline"}
    /\ ctxDone \in BOOLEAN

\* The zero TCPServer with its configuration fields set; Serve not yet called.
Init ==
    /\ Handler \in BOOLEAN
    /\ TLSConfig \in BOOLEAN
    /\ (~Handler => ~TLSConfig)   \* TLSConfig is read only when Handler != nil
    /\ lClosed = FALSE
    /\ closeCh = 0
    /\ conns = {}
    /\ connsMu = [writer |-> NoConn, pending |-> NoConn, readers |-> {}]
    /\ acPc = "init" /\ acErr = "none" /\ serveErr = "none"
    /\ wpc = [c \in Conns |-> "none"]
    /\ connClosed = [c \in Conns |-> FALSE]
    /\ connCloseCh = [c \in Conns |-> 0]
    /\ received = [c \in Conns |-> FALSE]
    /\ hs = [c \in Conns |-> "none"]
    /\ calls = [c \in Conns |-> 0]
    /\ clPc = "idle" /\ clErr = "none" /\ clTodo = {} /\ clLErr = "none"
    /\ sdPc = "idle" /\ sdErr = "none" /\ sdTodo = {} /\ sdLErr = "none"
    /\ sdRet = "none"
    /\ ctxDone = FALSE

----------------------------------------------------------------------------
(* net.Listener and sync.RWMutex as the code uses them *)

\* l.Close(): nil the first time, an error on a listener already closed.
ListenerCloseErr == IF lClosed THEN "ErrClosed" ELSE "nil"

\* Mutant: RLock() returns whatever the state of the lock.
CanRLock_Mut == TRUE

\* connsMu.RLock() returns: no writer holds the lock and none is waiting for it.
CanRLock == connsMu.writer = NoConn /\ connsMu.pending = NoConn

\* connsMu.Lock() by the worker of c may start: writers are serialised.
CanLock == connsMu.writer = NoConn /\ connsMu.pending = NoConn

RLocked(who) == [connsMu EXCEPT !.readers = @ \cup {who}]
RUnlocked(who) == [connsMu EXCEPT !.readers = @ \ {who}]

\* connsMu.Lock(): taken at once when free, else announced to the readers.
Locked(c) == IF connsMu.readers = {}
             THEN [connsMu EXCEPT !.writer = c]
             ELSE [connsMu EXCEPT !.pending = c]

\* Mutant: the select always takes its default case; nothing is sent.
TrySend_Mut(n) == n

\* select { case ch <- struct{}{}: default: } on a channel of capacity 1.
TrySend(n) == 1

----------------------------------------------------------------------------
(* Serve *)

\* Serve, lines 131-133: srv.l, srv.conns and srv.closeCh are set up.
ServeStart ==
    /\ acPc = "init"
    /\ acPc' = "accept"
    /\ conns' = {}
    /\ closeCh' = 0
    /\ UNCHANGED <<srvVars, lClosed, connsMu, acErr, serveErr, wpc, connVars,
                   clVars, sdVars, ctxDone>>

\* The connection a successful Accept returns: a fresh one.
NextConn == CHOOSE c \in Conns : wpc[c] = "none" /\ \A d \in Conns : wpc[d] = "none" => c <= d

\* l.Accept() returns a connection; go srv.serve(conn) (lines 139, 153).
AcceptOk ==
    /\ acPc = "accept"
    /\ ~lClosed
    /\ \E c \in Conns : wpc[c] = "none"
    /\ wpc' = [wpc EXCEPT ![NextConn] = "spawned"]
    /\ UNCHANGED <<srvVars, lClosed, closeCh, conns, connsMu, acVars, connVars,
                   clVars, sdVars, ctxDone>>

\* l.Accept() returns an error (line 139): the listener is closed, or the
\* network fails transiently or for good.
AcceptFail ==
    /\ acPc = "accept"
    /\ \E e \in (IF lClosed THEN {"ErrClosed"} ELSE {"Temporary", "Fatal"}) :
          acErr' = e
    /\ acPc' = "acceptErr"
    /\ UNCHANGED <<srvVars, lClosed, closeCh, conns, connsMu, serveErr, wpc,
                   connVars, clVars, sdVars, ctxDone>>

\* Mutant: every accept error without a pending signal is retried, none is
\* returned.
ServeAcceptErr_Retry ==
    /\ acPc = "acceptErr"
    /\ IF closeCh = 1
       THEN /\ closeCh' = 0
            /\ serveErr' = "nil"
            /\ acPc' = "done"
            /\ lClosed' = TRUE
       ELSE /\ acPc' = "accept"
            /\ UNCHANGED <<closeCh, serveErr, lClosed>>
    /\ UNCHANGED <<srvVars, conns, connsMu, acErr, wpc, connVars,
                   clVars, sdVars, ctxDone>>

\* Mutant: the transient-error test comes before the select on closeCh.
ServeAcceptErr_Mut ==
    /\ acPc = "acceptErr"
    /\ IF acErr = "Temporary"
       THEN /\ acPc' = "accept"
            /\ UNCHANGED <<closeCh, serveErr, lClosed>>
       ELSE IF closeCh = 1
       THEN /\ closeCh' = 0
            /\ serveErr' = "nil"
            /\ acPc' = "done"
            /\ lClosed' = TRUE
       ELSE /\ serveErr' = acErr
            /\ acPc' = "done"
            /\ lClosed' = TRUE
            /\ UNCHANGED closeCh
    /\ UNCHANGED <<srvVars, conns, connsMu, acErr, wpc, connVars,
                   clVars, sdVars, ctxDone>>

\* Serve, lines 140-152, with the deferred srv.l.Close() of lines 134-136.
ServeAcceptErr ==
    /\ acPc = "acceptErr"
    /\ IF closeCh = 1
       THEN /\ closeCh' = 0
            /\ serveErr' = "nil"
            /\ acPc' = "done"
            /\ lClosed' = TRUE
       ELSE IF acErr = "Temporary"
       THEN /\ acPc' = "accept"
            /\ UNCHANGED <<closeCh, serveErr, lClosed>>
       ELSE /\ serveErr' = acErr
            /\ acPc' = "done"
            /\ lClosed' = TRUE
            /\ UNCHANGED closeCh
    /\ UNCHANGED <<srvVars, conns, connsMu, acErr, wpc, connVars,
                   clVars, sdVars, ctxDone>>

----------------------------------------------------------------------------
(* serve(conn): the worker of one connection *)

\* serve, lines 158-160: closeCh is made, connsMu.Lock() is called.
WorkerLock(c) ==
    /\ wpc[c] = "spawned"
    /\ CanLock
    /\ connsMu' = Locked(c)
    /\ wpc' = [wpc EXCEPT ![c] = "regLock"]
    /\ UNCHANGED <<srvVars, lClosed, closeCh, conns, acVars, connVars,
                   clVars, sdVars, ctxDone>>

\* A waiting Lock() returns when the last reader has left.
LockGrant(c) ==
    /\ connsMu.pending = c
    /\ connsMu.readers = {}
    /\ connsMu' = [connsMu EXCEPT !.pending = NoConn, !.writer = c]
    /\ UNCHANGED <<srvVars, lClosed, closeCh, conns, acVars, wpc, connVars,
                   clVars, sdVars, ctxDone>>

\* Where the worker goes after registering (lines 167, 174, 189).
AfterRegister == IF ~Handler THEN "close"
                 ELSE IF TLSConfig THEN "handshake" ELSE "handler"

\* serve, lines 161-165: the entry is stored and the lock released.
Register(c) ==
    /\ wpc[c] = "regLock"
    /\ connsMu.writer = c
    /\ conns' = conns \cup {c}
    /\ connsMu' = [connsMu EXCEPT !.writer = NoConn]
    /\ wpc' = [wpc EXCEPT ![c] = AfterRegister]
    /\ calls' = [calls EXCEPT ![c] = IF AfterRegister = "handler" THEN 1 ELSE 0]
    /\ UNCHANGED <<srvVars, lClosed, closeCh, acVars, connClosed, connCloseCh,
                   received, hs, clVars, sdVars, ctxDone>>

\* serve, lines 175-181 and 189-190: the handshake succeeds on a socket that
\* is open, handlerConn = tlsConn, and srv.Handler.Serve is called.
HandshakeOk(c) ==
    /\ wpc[c] = "handshake"
    /\ ~connClosed[c]
    /\ hs' = [hs EXCEPT ![c] = "ok"]
    /\ calls' = [calls EXCEPT ![c] = 1]
    /\ wpc' = [wpc EXCEPT ![c] = "handler"]
    /\ UNCHANGED <<srvVars, lClosed, closeCh, conns, connsMu, acVars,
                   connClosed, connCloseCh, received, clVars, sdVars, ctxDone>>

\* Mutant: handlerConn is not set to nil; the handler is called on a connection
\* whose handshake failed.
HandshakeFail_Mut(c) ==
    /\ wpc[c] = "handshake"
    /\ hs' = [hs EXCEPT ![c] = "failed"]
    /\ calls' = [calls EXCEPT ![c] = 1]
    /\ wpc' = [wpc EXCEPT ![c] = "handler"]
    /\ UNCHANGED <<srvVars, lClosed, closeCh, conns, connsMu, acVars,
                   connClosed, connCloseCh, received, clVars, sdVars, ctxDone>>

\* serve, lines 176-178 and 189: the handshake fails, handlerConn = nil, the
\* handler is skipped.
HandshakeFail(c) ==
    /\ wpc[c] = "handshake"
    /\ hs' = [hs EXCEPT ![c] = "failed"]
    /\ wpc' = [wpc EXCEPT ![c] = "close"]
    /\ UNCHANGED <<srvVars, lClosed, closeCh, conns, connsMu, acVars,
                   connClosed, connCloseCh, received, calls, clVars, sdVars,
                   ctxDone>>

\* srv.Handler.Serve returns on its own account (line 190).
HandlerReturn(c) ==
    /\ wpc[c] = "handler"
    /\ wpc' = [wpc EXCEPT ![c] = "close"]
    /\ UNCHANGED <<srvVars, lClosed, closeCh, conns, connsMu, acVars, connVars,
                   clVars, sdVars, ctxDone>>

\* srv.Handler.Serve receives from closeCh and returns (line 190).
HandlerCancel(c) ==
    /\ wpc[c] = "handler"
    /\ connCloseCh[c] = 1
    /\ connCloseCh' = [connCloseCh EXCEPT ![c] = 0]
    /\ received' = [received EXCEPT ![c] = TRUE]
    /\ wpc' = [wpc EXCEPT ![c] = "close"]
    /\ UNCHANGED <<srvVars, lClosed, closeCh, conns, connsMu, acVars,
                   connClosed, hs, calls, clVars, sdVars, ctxDone>>

\* Mutant: no recover; the panic ends the process and every goroutine in it.
HandlerPanic_Mut(c) ==
    /\ wpc[c] = "handler"
    /\ wpc' = [d \in Conns |-> IF wpc[d] = "none" THEN "none" ELSE "done"]
    /\ acPc' = "done"
    /\ UNCHANGED <<srvVars, lClosed, closeCh, conns, connsMu, acErr, serveErr,
                   connVars, clVars, sdVars, ctxDone>>

\* srv.Handler.Serve panics (line 190); the stack unwinds to the deferred function.
HandlerPanic(c) ==
    /\ wpc[c] = "handler"
    /\ wpc' = [wpc EXCEPT ![c] = "recover"]
    /\ UNCHANGED <<srvVars, lClosed, closeCh, conns, connsMu, acVars, connVars,
                   clVars, sdVars, ctxDone>>

\* serve, lines 183-188: recover() returns the panic value, errorLog.Print(e).
Recover(c) ==
    /\ wpc[c] = "recover"
    /\ wpc' = [wpc EXCEPT ![c] = "close"]
    /\ UNCHANGED <<srvVars, lClosed, closeCh, conns, connsMu, acVars, connVars,
                   clVars, sdVars, ctxDone>>

\* Mutant: the worker unregisters without closing the socket.
WorkerClose_Mut(c) ==
    /\ wpc[c] = "close"
    /\ connClosed' = connClosed
    /\ wpc' = [wpc EXCEPT ![c] = "unreg"]
    /\ UNCHANGED <<srvVars, lClosed, closeCh, conns, connsMu, acVars,
                   connCloseCh, received, hs, calls, clVars, sdVars, ctxDone>>

\* serve, line 195: conn.Close().
WorkerClose(c) ==
    /\ wpc[c] = "close"
    /\ connClosed' = [connClosed EXCEPT ![c] = TRUE]
    /\ wpc' = [wpc EXCEPT ![c] = "unreg"]
    /\ UNCHANGED <<srvVars, lClosed, closeCh, conns, connsMu, acVars,
                   connCloseCh, received, hs, calls, clVars, sdVars, ctxDone>>

\* serve, line 197: connsMu.Lock() is called.
WorkerUnregLock(c) ==
    /\ wpc[c] = "unreg"
    /\ CanLock
    /\ connsMu' = Locked(c)
    /\ wpc' = [wpc EXCEPT ![c] = "unregLock"]
    /\ UNCHANGED <<srvVars, lClosed, closeCh, conns, acVars, connVars,
                   clVars, sdVars, ctxDone>>

\* Mutant: the worker releases the lock without deleting its entry.
Unregister_Mut(c) ==
    /\ wpc[c] = "unregLock"
    /\ connsMu.writer = c
    /\ conns' = conns
    /\ connsMu' = [connsMu EXCEPT !.writer = NoConn]
    /\ wpc' = [wpc EXCEPT ![c] = "done"]
    /\ UNCHANGED <<srvVars, lClosed, closeCh, acVars, connVars,
                   clVars, sdVars, ctxDone>>

\* serve, lines 198-199: the entry is deleted and the lock released.
Unregister(c) ==
    /\ wpc[c] = "unregLock"
    /\ connsMu.writer = c
    /\ conns' = conns \ {c}
    /\ connsMu' = [connsMu EXCEPT !.writer = NoConn]
    /\ wpc' = [wpc EXCEPT ![c] = "done"]
    /\ UNCHANGED <<srvVars, lClosed, closeCh, acVars, connVars,
                   clVars, sdVars, ctxDone>>

----------------------------------------------------------------------------
(* Close *)

\* Close, line 95: err = srv.l.Close(). srv.l is set once Serve has started.
CloseStart ==
    /\ clPc = "idle"
    /\ acPc # "init"
    /\ clErr' = ListenerCloseErr
    /\ clLErr' = ListenerCloseErr
    /\ lClosed' = TRUE
    /\ clPc' = "signal"
    /\ UNCHANGED <<srvVars, closeCh, conns, connsMu, acVars, wpc, connVars,
                   clTodo, sdVars, ctxDone>>

\* Mutant: a blocking send on srv.closeCh.
CloseSignal_Mut ==
    /\ clPc = "signal"
    /\ closeCh = 0
    /\ closeCh' = TrySend(closeCh)
    /\ clPc' = "rlock"
    /\ UNCHANGED <<srvVars, lClosed, conns, connsMu, acVars, wpc, connVars,
                   clErr, clTodo, clLErr, sdVars, ctxDone>>

\* Close, lines 96-101: non-blocking send on srv.closeCh.
CloseSignal ==
    /\ clPc = "signal"
    /\ closeCh' = TrySend(closeCh)
    /\ clPc' = "rlock"
    /\ UNCHANGED <<srvVars, lClosed, conns, connsMu, acVars, wpc, connVars,
                   clErr, clTodo, clLErr, sdVars, ctxDone>>

\* Close, lines 101-102: connsMu.RLock(), the range loop starts.
CloseRLock ==
    /\ clPc = "rlock"
    /\ CanRLock
    /\ connsMu' = RLocked("Close")
    /\ clTodo' = conns
    /\ clPc' = "iter"
    /\ UNCHANGED <<srvVars, lClosed, closeCh, conns, acVars, wpc, connVars,
                   clErr, clLErr, sdVars, ctxDone>>

\* Mutant: the send to the worker's closeCh blocks while the slot is full.
CloseIter_Block(c) ==
    /\ clPc = "iter"
    /\ c \in clTodo
    /\ connCloseCh[c] = 0
    /\ connCloseCh' = [connCloseCh EXCEPT ![c] = 1]
    /\ connClosed' = [connClosed EXCEPT ![c] = TRUE]
    /\ clTodo' = clTodo \ {c}
    /\ UNCHANGED <<srvVars, lClosed, closeCh, conns, connsMu, acVars, wpc,
                   received, hs, calls, clPc, clErr, clLErr, sdVars, ctxDone>>

\* Mutant: Close deletes the entry of each connection it has closed.
CloseIter_Mut(c) ==
    /\ clPc = "iter"
    /\ c \in clTodo
    /\ connCloseCh' = [connCloseCh EXCEPT ![c] = TrySend(@)]
    /\ connClosed' = [connClosed EXCEPT ![c] = TRUE]
    /\ clTodo' = clTodo \ {c}
    /\ conns' = conns \ {c}
    /\ UNCHANGED <<srvVars, lClosed, closeCh, connsMu, acVars, wpc,
                   received, hs, calls, clPc, clErr, clLErr, sdVars, ctxDone>>

\* Close, lines 103-107: one entry is signalled and its socket closed.
CloseIter(c) ==
    /\ clPc = "iter"
    /\ c \in clTodo
    /\ connCloseCh' = [connCloseCh EXCEPT ![c] = TrySend(@)]
    /\ connClosed' = [connClosed EXCEPT ![c] = TRUE]
    /\ clTodo' = clTodo \ {c}
    /\ UNCHANGED <<srvVars, lClosed, closeCh, conns, connsMu, acVars, wpc,
                   received, hs, calls, clPc, clErr, clLErr, sdVars, ctxDone>>

\* Close, lines 109-111: connsMu.RUnlock(), return.
CloseReturn ==
    /\ clPc = "iter"
    /\ clTodo = {}
    /\ connsMu' = RUnlocked("Close")
    /\ clPc' = "done"
    /\ UNCHANGED <<srvVars, lClosed, closeCh, conns, acVars, wpc, connVars,
                   clErr, clTodo, clLErr, sdVars, ctxDone>>

----------------------------------------------------------------------------
(* Shutdown *)

\* Shutdown(ctx), line 53: err = srv.l.Close(). The context given may have
\* expired already.
ShutdownStart ==
    /\ sdPc = "idle"
    /\ acPc # "init"
    /\ ctxDone' \in BOOLEAN
    /\ sdErr' = ListenerCloseErr
    /\ sdLErr' = ListenerCloseErr
    /\ lClosed' = TRUE
    /\ sdPc' = "signal"
    /\ UNCHANGED <<srvVars, closeCh, conns, connsMu, acVars, wpc, connVars,
                   clVars, sdTodo, sdRet>>

\* Shutdown, lines 54-57: non-blocking send on srv.closeCh.
ShutdownSignal ==
    /\ sdPc = "signal"
    /\ closeCh' = TrySend(closeCh)
    /\ sdPc' = "rlock"
    /\ UNCHANGED <<srvVars, lClosed, conns, connsMu, acVars, wpc, connVars,
                   clVars, sdErr, sdTodo, sdRet, ctxDone, sdLErr>>

\* Shutdown, lines 59-60: connsMu.RLock(), the range loop starts.
ShutdownRLock ==
    /\ sdPc = "rlock"
    /\ CanRLock
    /\ connsMu' = RLocked("Shutdown")
    /\ sdTodo' = conns
    /\ sdPc' = "iter"
    /\ UNCHANGED <<srvVars, lClosed, closeCh, conns, acVars, wpc, connVars,
                   clVars, sdErr, sdRet, ctxDone, sdLErr>>

\* Mutant: the broadcast of Shutdown closes each socket, as that of Close does.
ShutdownIter_Mut(c) ==
    /\ sdPc = "iter"
    /\ c \in sdTodo
    /\ connCloseCh' = [connCloseCh EXCEPT ![c] = TrySend(@)]
    /\ connClosed' = [connClosed EXCEPT ![c] = TRUE]
    /\ sdTodo' = sdTodo \ {c}
    /\ UNCHANGED <<srvVars, lClosed, closeCh, conns, connsMu, acVars, wpc,
                   received, hs, calls, clVars, sdPc, sdErr,
                   sdRet, ctxDone, sdLErr>>

\* Shutdown, lines 61-64: one entry is signalled.
ShutdownIter(c) ==
    /\ sdPc = "iter"
    /\ c \in sdTodo
    /\ connCloseCh' = [connCloseCh EXCEPT ![c] = TrySend(@)]
    /\ sdTodo' = sdTodo \ {c}
    /\ UNCHANGED <<srvVars, lClosed, closeCh, conns, connsMu, acVars, wpc,
                   connClosed, received, hs, calls, clVars, sdPc, sdErr,
                   sdRet, ctxDone, sdLErr>>

\* Shutdown, line 66: connsMu.RUnlock(); the wait loop is entered.
ShutdownRUnlock ==
    /\ sdPc = "iter"
    /\ sdTodo = {}
    /\ connsMu' = RUnlocked("Shutdown")
    /\ sdPc' = "wait"
    /\ UNCHANGED <<srvVars, lClosed, closeCh, conns, acVars, wpc, connVars,
                   clVars, sdErr, sdTodo, sdRet, ctxDone, sdLErr>>

\* Shutdown, lines 69-71: the 5 ms timer fires before ctx.Done() is ready (the
\* select takes the case that is ready first), connsMu.RLock().
ShutdownTimer ==
    /\ sdPc = "wait"
    /\ ~ctxDone
    /\ CanRLock
    /\ connsMu' = RLocked("Shutdown")
    /\ sdPc' = "poll"
    /\ UNCHANGED <<srvVars, lClosed, closeCh, conns, acVars, wpc, connVars,
                   clVars, sdErr, sdTodo, sdRet, ctxDone, sdLErr>>

\* Mutant: the poll takes a registry of one entry for an empty one.
PollEmpty_Mut == Cardinality(conns) <= 1

\* The size the poll of line 72 compares with 0.
PollEmpty == Cardinality(conns) = 0

\* Mutant: natural completion returns nil whatever closing the listener returned.
ShutdownPoll_Mut ==
    /\ sdPc = "poll"
    /\ connsMu' = RUnlocked("Shutdown")
    /\ IF PollEmpty
       THEN sdPc' = "done" /\ sdRet' = "natural" /\ sdErr' = "nil"
       ELSE sdPc' = "wait" /\ UNCHANGED <<sdRet, sdErr>>
    /\ UNCHANGED <<srvVars, lClosed, closeCh, conns, acVars, wpc, connVars,
                   clVars, sdTodo, ctxDone, sdLErr>>

\* Shutdown, lines 72-76: return when the registry is empty, else wait again.
ShutdownPoll ==
    /\ sdPc = "poll"
    /\ connsMu' = RUnlocked("Shutdown")
    /\ IF PollEmpty
       THEN sdPc' = "done" /\ sdRet' = "natural"
       ELSE sdPc' = "wait" /\ UNCHANGED sdRet
    /\ UNCHANGED <<srvVars, lClosed, closeCh, conns, acVars, wpc, connVars,
                   clVars, sdErr, sdTodo, ctxDone, sdLErr>>

\* Shutdown, lines 77-79: ctx.Done() is chosen, connsMu.RLock().
ShutdownDeadline ==
    /\ sdPc = "wait"
    /\ ctxDone
    /\ CanRLock
    /\ connsMu' = RLocked("Shutdown")
    /\ sdTodo' = conns
    /\ sdPc' = "force"
    /\ UNCHANGED <<srvVars, lClosed, closeCh, conns, acVars, wpc, connVars,
                   clVars, sdErr, sdRet, ctxDone, sdLErr>>

\* Mutant: the ctx.Done branch visits the entries without closing their sockets.
ShutdownForce_Mut(c) ==
    /\ sdPc = "force"
    /\ c \in sdTodo
    /\ connClosed' = connClosed
    /\ sdTodo' = sdTodo \ {c}
    /\ UNCHANGED <<srvVars, lClosed, closeCh, conns, connsMu, acVars, wpc,
                   connCloseCh, received, hs, calls, clVars, sdPc, sdErr,
                   sdRet, ctxDone, sdLErr>>

\* Shutdown, line 80: c.conn.Close() for one entry.
ShutdownForce(c) ==
    /\ sdPc = "force"
    /\ c \in sdTodo
    /\ connClosed' = [connClosed EXCEPT ![c] = TRUE]
    /\ sdTodo' = sdTodo \ {c}
    /\ UNCHANGED <<srvVars, lClosed, closeCh, conns, connsMu, acVars, wpc,
                   connCloseCh, received, hs, calls, clVars, sdPc, sdErr,
                   sdRet, ctxDone, sdLErr>>

\* Shutdown, lines 82-84: connsMu.RUnlock(), err = ctx.Err(), return.
ShutdownForceReturn ==
    /\ sdPc = "force"
    /\ sdTodo = {}
    /\ connsMu' = RUnlocked("Shutdown")
    /\ sdErr' = "ctxErr"
    /\ sdRet' = "deadline"
    /\ sdPc' = "done"
    /\ UNCHANGED <<srvVars, lClosed, closeCh, conns, acVars, wpc, connVars,
                   clVars, sdTodo, ctxDone, sdLErr>>

\* The deadline of Shutdown's context passes, or its owner cancels it, while
\* Shutdown runs.
CtxExpire ==
    /\ ~ctxDone
    /\ sdPc \notin {"idle", "done"}
    /\ ctxDone' = TRUE
    /\ UNCHANGED <<srvVars, lClosed, closeCh, conns, connsMu, acVars, wpc,
                   connVars, clVars, sdVars>>

----------------------------------------------------------------------------

Next ==
    \/ ServeStart
    \/ AcceptOk
    \/ AcceptFail
    \/ ServeAcceptErr
    \/ \E c \in Conns : WorkerLock(c)
    \/ \E c \in Conns : LockGrant(c)
    \/ \E c \in Conns : Register(c)
    \/ \E c \in Conns : HandshakeOk(c)
    \/ \E c \in Conns : HandshakeFail(c)
    \/ \E c \in Conns : HandlerReturn(c)
    \/ \E c \in Conns : HandlerCancel(c)
    \/ \E c \in Conns : HandlerPanic(c)
    \/ \E c \in Conns : Recover(c)
    \/ \E c \in Conns : WorkerClose(c)
    \/ \E c \in Conns : WorkerUnregLock(c)
    \/ \E c \in Conns : Unregister(c)
    \/ CloseStart
    \/ CloseSignal
    \/ CloseRLock
    \/ \E c \in Conns : CloseIter(c)
    \/ CloseReturn
    \/ ShutdownStart
    \/ ShutdownSignal
    \/ ShutdownRLock
    \/ \E c \in Conns : ShutdownIter(c)
    \/ ShutdownRUnlock
    \/ ShutdownTimer
    \/ ShutdownPoll
    \/ ShutdownDeadline
    \/ \E c \in Conns : ShutdownForce(c)
    \/ ShutdownForceReturn
    \/ CtxExpire

Spec == Init /\ [][Next]_vars

\* The goroutine running Serve is scheduled: l.Accept() on a closed listener
\* returns (line 139), and the code after a failed Accept runs (lines 140-152).
\* Nothing is assumed of Close, Shutdown, the workers or the clients.
FairServe == Spec /\ WF_vars(lClosed /\ AcceptFail) /\ WF_vars(ServeAcceptErr)

\* The steps of the worker of c that are the server's own code: everything
\* but the handshake with the client and the handler.
WorkerStep(c) ==
    \/ WorkerLock(c) \/ LockGrant(c) \/ Register(c) \/ Recover(c)
    \/ WorkerClose(c) \/ WorkerUnregLock(c) \/ Unregister(c)

\* The steps of Close after its call.
CloseRun ==
    CloseSignal \/ CloseRLock \/ (\E c \in Conns : CloseIter(c)) \/ CloseReturn

\* The steps of Shutdown after its call.
ShutdownRun ==
    \/ ShutdownSignal \/ ShutdownRLock \/ (\E c \in Conns : ShutdownIter(c))
    \/ ShutdownRUnlock \/ ShutdownTimer \/ ShutdownPoll \/ ShutdownDeadline
    \/ (\E c \in Conns : ShutdownForce(c)) \/ ShutdownForceReturn

\* Every goroutine of the server that can run does run: Serve, the workers
\* outside the handshake and the handler, and the callers inside Close and
\* Shutdown. Nothing is assumed of clients and handlers.
FairAll ==
    /\ FairServe
    /\ \A c \in Conns : WF_vars(WorkerStep(c))
    /\ WF_vars(CloseRun)
    /\ WF_vars(ShutdownRun)

\* A step of the server's own code after the calls of Close and Shutdown.
ServerStep ==
    \/ (lClosed /\ AcceptFail) \/ ServeAcceptErr
    \/ (\E c \in Conns : WorkerStep(c))
    \/ CloseRun \/ ShutdownRun

----------------------------------------------------------------------------
(* Vocabulary of the properties *)

\* Connections Serve has accepted. Close and Shutdown close the listener as
\* their first step, so this set no longer grows once either was invoked.
Accepted == {c \in Conns : wpc[c] # "none"}

\* Positions of a worker between registering its entry and deleting it.
RegisteredPcs == {"handshake", "handler", "recover", "close", "unreg", "unregLock"}

\* A step of Shutdown itself.
ShutdownStep == <<sdPc, sdTodo>>' # <<sdPc, sdTodo>>

\* A step of Close itself.
CloseStep == <<clPc, clTodo>>' # <<clPc, clTodo>>

\* What Close still has to do: it decreases with every step of Close.
CloseMeasure ==
    (CASE clPc = "idle" -> 4 [] clPc = "signal" -> 3 [] clPc = "rlock" -> 2
       [] clPc = "iter" -> 1 [] OTHER -> 0) * (MaxConns + 1) + Cardinality(clTodo)

----------------------------------------------------------------------------
(* C1 *)

\* C1: whenever Serve's accept fails because Close or Shutdown closed the
\* listener, Serve returns nil. (The listener is closed before Serve returns
\* only by Close or Shutdown, so acErr = "ErrClosed" is exactly that case.)
\* The code violates it: Close and Shutdown close the listener before they
\* send on closeCh, and Serve may run its select in between.
C1_ServeNilAfterClose ==
    (acPc = "done" /\ acErr = "ErrClosed") => serveErr = "nil"

----------------------------------------------------------------------------
(* C2 *)

\* C2: once Close has returned, the socket of every connection Serve had
\* accepted before Close was invoked is closed. The code violates it: a
\* connection whose worker has not registered yet when Close iterates the
\* registry is neither signalled nor closed.
C2_CloseClosesAccepted ==
    clPc = "done" => \A c \in Accepted : connClosed[c]

----------------------------------------------------------------------------
(* C3 *)

----------------------------------------------------------------------------
(* C4 *)

----------------------------------------------------------------------------
(* C5 *)

\* C5: a connection is in the registry exactly while its worker is between
\* its registration and its cleanup; a worker that has terminated has closed
\* its connection and removed its entry; an entry is added only by its
\* worker's registration and removed only by its worker's last step, after
\* which the worker never moves again (so the entry never reappears).
C5_WorkerCleanup ==
    /\ [](\A c \in Conns :
            /\ (c \in conns <=> wpc[c] \in RegisteredPcs)
            /\ (wpc[c] = "done" => connClosed[c] /\ c \notin conns))
    /\ [][\A c \in Conns :
            /\ (c \notin conns /\ c \in conns') => wpc[c] = "regLock"
            /\ (c \in conns /\ c \notin conns') =>
                  (wpc[c] = "unregLock" /\ wpc'[c] = "done" /\ connClosed[c])
            /\ (wpc[c] = "done" => wpc'[c] = "done")]_vars

\* Both workers have terminated after Close force-closed a handler's socket
\* and after a TLS handshake or a handler failed.
C5_Witness ==
    /\ \A c \in Conns : wpc[c] = "done"
    /\ conns = {} /\ clPc = "done" /\ Handler

----------------------------------------------------------------------------
(* C6 *)

\* C6: the end of a handler, by return or by panic, is a step of its own
\* worker only, which goes on to its cleanup (after recovering, if it
\* panicked): the accept loop, the listener, the registry, the other workers
\* and their sockets and signals are left as they were; a recovering worker
\* goes on to close its connection; while it recovers, the accept loop can
\* still accept and any other running handler can still return.
C6_PanicIsolated ==
    /\ [][\A c \in Conns : (wpc[c] = "handler" /\ wpc'[c] # "handler") =>
            /\ wpc'[c] \in {"recover", "close"}
            /\ \A d \in Conns \ {c} :
                  wpc'[d] = wpc[d] /\ connCloseCh'[d] = connCloseCh[d]
            /\ (wpc'[c] = "recover" => UNCHANGED connVars)
            /\ UNCHANGED <<lClosed, closeCh, conns, connsMu, acVars, connClosed,
                           clVars, sdVars>>]_vars
    /\ [][\A c \in Conns : (wpc[c] = "recover" /\ wpc'[c] # "recover") =>
            wpc'[c] = "close"]_vars
    /\ [](\A c \in Conns : wpc[c] = "recover" =>
            /\ c \in conns
            /\ ENABLED Recover(c)
            /\ \A d \in Conns : wpc[d] = "handler" => ENABLED HandlerReturn(d)
            /\ (acPc = "accept" /\ ~lClosed /\ (\E d \in Conns : wpc[d] = "none"))
                 => ENABLED AcceptOk)

\* The second connection was accepted, served to normal completion and
\* unregistered while the first handler's panic is being recovered, and Serve
\* is still accepting.
C6_Witness ==
    /\ wpc[1] = "recover" /\ wpc[2] = "done" /\ ~received[2]
    /\ acPc = "accept" /\ ~lClosed

----------------------------------------------------------------------------
(* C7 *)

\* C7: on an accept failure Serve returns nil and takes the signal if one is
\* pending, whatever the error; else retries if the error is transient; else
\* returns that error. Serve never returns a transient error, and whenever it
\* has returned the listener is closed.
C7_AcceptFailureOrder ==
    /\ [][(acPc = "acceptErr" /\ acPc' # "acceptErr") =>
            IF closeCh = 1
            THEN acPc' = "done" /\ serveErr' = "nil" /\ closeCh' = 0
            ELSE IF acErr = "Temporary"
            THEN acPc' = "accept" /\ serveErr' = "none" /\ closeCh' = closeCh
            ELSE acPc' = "done" /\ serveErr' = acErr /\ closeCh' = closeCh]_vars
    /\ [](acPc = "done" <=> serveErr # "none")
    /\ [](serveErr # "Temporary")
    /\ [](acPc = "done" => lClosed)

\* Serve returned nil on a transient accept error because a signal was pending.
C7_Witness ==
    acPc = "done" /\ acErr = "Temporary" /\ serveErr = "nil"

----------------------------------------------------------------------------
(* C8 *)

\* C8: a step of Shutdown closes a socket only in its ctx.Done branch, after
\* the deadline has fired; a running handler whose socket is closed had it
\* closed by Close or by that branch.
C8_ShutdownClosesOnlyAfterDeadline ==
    /\ [][((\E c \in Conns : ~connClosed[c] /\ connClosed'[c]) /\ ShutdownStep)
            => (ctxDone /\ sdPc = "force")]_vars
    /\ [](\A c \in Conns : (wpc[c] = "handler" /\ connClosed[c]) =>
            \/ clPc \in {"iter", "done"}
            \/ (ctxDone /\ sdPc \in {"force", "done"}))

\* Shutdown is waiting, its deadline has not fired, and a handler that has not
\* taken its pending signal keeps running on an open socket.
C8_Witness ==
    /\ sdPc = "wait" /\ ~ctxDone
    /\ \E c \in Conns : wpc[c] = "handler" /\ connCloseCh[c] = 1 /\ ~connClosed[c]

----------------------------------------------------------------------------
(* C9 *)

\* C9: when Shutdown returns from the poll that found the registry empty, it
\* returns what closing the listener returned, never the context's error.
C9_NaturalReturnValue ==
    (sdPc = "done" /\ sdRet = "natural") => (sdErr = sdLErr /\ sdErr # "ctxErr")

\* Shutdown completed naturally and returned the listener's close error.
C9_Witness ==
    sdPc = "done" /\ sdRet = "natural" /\ sdErr = "ErrClosed"

----------------------------------------------------------------------------
(* C10 *)

\* C10: Close never waits for a handler or for room in a signal slot: its
\* sends and its loop are always able to step, and when it cannot take the
\* read lock, a holder of the lock can step without any handler returning;
\* every step of Close brings it nearer to returning; it returns what closing
\* the listener returned.
C10_CloseNeverWaits ==
    /\ [](clPc = "signal" => ENABLED CloseSignal)
    /\ [](clPc = "iter" => ENABLED (CloseReturn \/ \E c \in Conns : CloseIter(c)))
    /\ [](clPc = "rlock" =>
            \/ ENABLED CloseRLock
            \/ \E c \in Conns : ENABLED (Register(c) \/ Unregister(c) \/ LockGrant(c))
            \/ ENABLED (ShutdownRUnlock \/ ShutdownPoll \/ ShutdownForceReturn
                          \/ \E c \in Conns : (ShutdownIter(c) \/ ShutdownForce(c))))
    /\ [](clPc = "done" => clErr = clLErr)
    /\ [][CloseStep => CloseMeasure' < CloseMeasure]_vars

\* Close has returned although the shutdown slot was already full when it sent
\* (Shutdown had filled it, Serve has not taken it), a per-connection slot was
\* full too, and a handler is still running.
C10_Witness ==
    /\ clPc = "done" /\ sdPc = "wait" /\ closeCh = 1 /\ acPc = "accept"
    /\ \E c \in Conns : wpc[c] = "handler" /\ connCloseCh[c] = 1

----------------------------------------------------------------------------
(* C11 *)

\* C11: at every moment each connection Serve has accepted and whose worker
\* has not finished its cleanup is in the registry. The code violates it: the
\* entry is stored by the worker goroutine (serve, lines 160-165), after
\* go srv.serve(conn), so an accepted connection is unregistered until its
\* worker has run that far, and Serve may accept the next one meanwhile.
C11_AcceptedIsRegistered ==
    \A c \in Conns : wpc[c] \notin {"none", "done"} => c \in conns

----------------------------------------------------------------------------
(* C12 *)

\* C12: when Shutdown has returned and its deadline has not fired, the worker
\* of every connection Serve accepted has finished. The code violates it: a
\* worker that has not registered yet is invisible to the poll, so Shutdown
\* returns on an empty registry while that worker is still to run its handler.
C12_ShutdownWaitsForWorkers ==
    (sdPc = "done" /\ ~ctxDone) => \A c \in Accepted : wpc[c] = "done"

----------------------------------------------------------------------------
(* C13 *)

\* The cancellation signal has been placed in the slot of c: it is still
\* there, or the handler has received it.
Signalled(c) == connCloseCh[c] = 1 \/ received[c]

\* C13: while Close or Shutdown broadcasts, every entry its loop has visited
\* has had the signal placed in its slot, and when the loop ends this holds of
\* every entry of the registry (which the read lock has kept unchanged during
\* the loop); a slot never holds more than one signal.
C13_BroadcastSignalsAll ==
    /\ [](clPc = "iter" => \A c \in conns \ clTodo : Signalled(c))
    /\ [](sdPc = "iter" => \A c \in conns \ sdTodo : Signalled(c))
    /\ [][(clPc = "iter" /\ clPc' = "done") =>
             (conns' = conns /\ \A c \in conns : Signalled(c)')]_vars
    /\ [][(sdPc = "iter" /\ sdPc' = "wait") =>
             (conns' = conns /\ \A c \in conns : Signalled(c)')]_vars
    /\ [](\A c \in Conns : connCloseCh[c] <= 1)

\* Shutdown has finished its broadcast over two entries: the signal of one is
\* still in its slot, the handler of the other has already received it.
C13_Witness ==
    /\ sdPc = "wait" /\ clPc = "idle" /\ conns = {1, 2}
    /\ connCloseCh[1] = 1 /\ ~received[1]
    /\ connCloseCh[2] = 0 /\ received[2]

----------------------------------------------------------------------------
(* C14 *)

\* The worker of c is at or past the point where the handler is called
\* (line 190).
PastHandlerCall(c) ==
    wpc[c] \in {"handler", "recover", "close", "unreg", "unregLock", "done"}

\* C14 as stated: on a connection without TLS, or whose handshake succeeded,
\* the handler has been called exactly once as soon as the worker is past the
\* call. A server whose Handler is nil (line 167) violates it: its workers
\* reach conn.Close() with no handler call at all.
C14_HandlerCalledOnce ==
    \A c \in Conns :
        (PastHandlerCall(c) /\ (~TLSConfig \/ hs[c] = "ok")) => calls[c] = 1

\* C14 amended (the server has a Handler): a connection whose handshake failed
\* never has its handler called and its worker goes on to conn.Close(), after
\* which the socket is closed and, once the worker is done, the entry is
\* removed; a connection without TLS, or whose handshake succeeded, has had
\* its handler called exactly once as soon as the worker is past the call.
C14_HandlerCalledOnceIfSet ==
    /\ [](\A c \in Conns :
            /\ hs[c] = "failed" => calls[c] = 0
            /\ (hs[c] = "failed" /\ wpc[c] = "done") =>
                   (connClosed[c] /\ c \notin conns)
            /\ (Handler /\ PastHandlerCall(c) /\ (~TLSConfig \/ hs[c] = "ok"))
                   => calls[c] = 1
            /\ hs[c] # "none" => TLSConfig)
    /\ [][\A c \in Conns : (hs[c] = "none" /\ hs'[c] = "failed") =>
            (wpc'[c] = "close" /\ c \in conns')]_vars
    /\ [][\A c \in Conns : calls'[c] >= calls[c]]_vars

\* One worker has finished after a failed handshake, the other after a
\* successful handshake and one handler call.
C14_Witness ==
    /\ hs[1] = "failed" /\ wpc[1] = "done" /\ calls[1] = 0 /\ connClosed[1]
    /\ hs[2] = "ok" /\ wpc[2] = "done" /\ calls[2] = 1

----------------------------------------------------------------------------
(* C15 *)

\* C15: under FairServe, once Close or Shutdown has been called on a server
\* whose Serve is running, Serve returns; and Serve accepts no connection from
\* a listener that has been closed.
C15_ServeStops ==
    /\ ((clPc # "idle" \/ sdPc # "idle") ~> acPc = "done")
    /\ [][\A c \in Conns : (wpc[c] = "none" /\ wpc'[c] # "none") => ~lClosed]_vars

\* Serve has returned after Close closed the listener, having accepted a
\* connection before; the other connection was never accepted.
C15_Witness ==
    /\ clPc # "idle" /\ sdPc = "idle" /\ acPc = "done"
    /\ wpc[1] # "none" /\ wpc[2] = "none"

----------------------------------------------------------------------------
(* C16 *)

\* The worker of c is between Lock() returning and Unlock() (lines 161-165 and
\* 198-199).
InWrite(c) == wpc[c] \in {"regLock", "unregLock"} /\ connsMu.pending # c

\* Close is between RLock() and RUnlock() (lines 101-109).
CloseInRead == clPc = "iter"

\* Shutdown is between RLock() and RUnlock(): the broadcast (lines 59-66), the
\* size check (lines 71-73) or the forced closing (lines 78-82).
ShutdownInRead == sdPc \in {"iter", "poll", "force"}

\* C16: no worker is inside its register or unregister section while Close or
\* Shutdown is inside a read section of the registry, no two workers are inside
\* such sections together, and the registry changes only in a step of a worker
\* that is inside one.
C16_RegistryExclusion ==
    /\ [](\A c \in Conns : InWrite(c) => (~CloseInRead /\ ~ShutdownInRead))
    /\ [](\A c, d \in Conns : (InWrite(c) /\ InWrite(d)) => c = d)
    /\ [][conns' # conns => \E c \in Conns : InWrite(c)]_vars

\* The read sections of Close and Shutdown overlap while a worker waits to
\* unregister.
C16_Witness ==
    /\ CloseInRead /\ ShutdownInRead
    /\ \E c \in Conns : wpc[c] = "unregLock" /\ connsMu.pending = c

----------------------------------------------------------------------------
(* C17 *)

\* The worker of c has stored its entry in the registry at some time.
WasRegistered(c) == wpc[c] \in RegisteredPcs \cup {"done"}

\* C17: an entry leaves the registry only when its socket is closed, so every
\* connection that was registered and is not in the registry has a closed
\* socket; when Shutdown's size check finds the registry empty, every
\* connection registered so far is closed.
C17_ClosedBeforeUnregistered ==
    /\ [][\A c \in Conns : (c \in conns /\ c \notin conns') => connClosed[c]]_vars
    /\ [](\A c \in Conns : (WasRegistered(c) /\ c \notin conns) => connClosed[c])
    /\ []((sdPc = "poll" /\ PollEmpty) =>
             \A c \in Conns : WasRegistered(c) => connClosed[c])
    /\ [][\A c \in Conns : connClosed[c] => connClosed'[c]]_vars

\* Shutdown's size check finds the registry empty after two connections were
\* registered and unregistered.
C17_Witness ==
    /\ sdPc = "poll" /\ PollEmpty
    /\ \A c \in Conns : wpc[c] = "done" /\ connClosed[c]

----------------------------------------------------------------------------
(* C18 *)

\* C18: no step of Close or Shutdown changes the registry; the entry of c is
\* added or removed only in a step of the worker of c, inside its register or
\* unregister section, and in no step of another worker; so a registered
\* connection whose worker has not unregistered is in the registry, whoever
\* closed its socket.
C18_OnlyOwnerChangesRegistry ==
    /\ [][(CloseStep \/ ShutdownStep) => conns' = conns]_vars
    /\ [][\A c \in Conns : ((c \in conns) # (c \in conns')) =>
            /\ wpc[c] \in {"regLock", "unregLock"}
            /\ wpc'[c] # wpc[c]
            /\ \A d \in Conns \ {c} : wpc'[d] = wpc[d]]_vars
    /\ [](\A c \in Conns : wpc[c] \in RegisteredPcs => c \in conns)

\* Close has returned after closing the socket of a connection whose handler
\* is still running: the entry is still in the registry.
C18_Witness ==
    /\ clPc = "done" /\ sdPc = "idle"
    /\ \E c \in Conns : c \in conns /\ connClosed[c] /\ wpc[c] = "handler"

----------------------------------------------------------------------------
(* C19 *)

\* Some goroutine of the server is at a point where it needs the registry
\* lock, holds it, sends a signal or has only code of the server left to run:
\* a worker before registration or after its handler, Close after its call,
\* Shutdown in its broadcast or forced closing, or anywhere after its context
\* is done, Serve on a closed listener.
Busy ==
    \/ \E c \in Conns :
          wpc[c] \in {"spawned", "regLock", "recover", "close", "unreg", "unregLock"}
    \/ clPc \in {"signal", "rlock", "iter"}
    \/ sdPc \in {"signal", "rlock", "iter", "force"}
    \/ (sdPc \in {"wait", "poll"} /\ ctxDone)
    \/ (lClosed /\ acPc \in {"accept", "acceptErr"})

\* C19: whenever a goroutine is at such a point some step of the server is
\* possible, and more precisely: the holder of the write lock can always
\* release it; Close and Shutdown inside a read section can always step (no
\* send and no socket close blocks them) and each step shortens the section or
\* leaves it; a worker waiting for the write lock keeps new readers out and
\* gets the lock when the last reader has left; when the lock is free every
\* worker, Close and Shutdown asking for it get it; and Shutdown whose context
\* is done takes the ctx.Done branch as soon as it can read-lock, and from
\* there only returns.
C19_NoDeadlock ==
    /\ [](Busy => ENABLED ServerStep)
    /\ [](\A c \in Conns : connsMu.writer = c =>
            ENABLED (Register(c) \/ Unregister(c)))
    /\ [](CloseInRead => ENABLED CloseRun)
    /\ [](ShutdownInRead => ENABLED ShutdownRun)
    /\ [][(CloseInRead /\ CloseStep) =>
            (clPc' = "done" \/ (clTodo' \subseteq clTodo /\ clTodo' # clTodo))]_vars
    /\ [][(ShutdownInRead /\ ShutdownStep) =>
            \/ sdPc' \in {"wait", "done"}
            \/ (sdPc' = sdPc /\ sdTodo' \subseteq sdTodo /\ sdTodo' # sdTodo)]_vars
    /\ [](\A c \in Conns : connsMu.pending = c =>
            IF connsMu.readers = {} THEN ENABLED LockGrant(c)
            ELSE CloseInRead \/ ShutdownInRead)
    /\ [][\A c \in Conns : connsMu.pending = c =>
            /\ connsMu'.readers \subseteq connsMu.readers
            /\ (connsMu'.pending = c \/ connsMu'.writer = c)]_vars
    /\ [](CanLock => \A c \in Conns :
            /\ wpc[c] = "spawned" => ENABLED WorkerLock(c)
            /\ wpc[c] = "unreg" => ENABLED WorkerUnregLock(c))
    /\ [](CanRLock =>
            /\ clPc = "rlock" => ENABLED CloseRLock
            /\ sdPc = "rlock" => ENABLED ShutdownRLock
            /\ (sdPc = "wait" /\ ctxDone) => ENABLED ShutdownDeadline)
    /\ []((sdPc = "wait" /\ ctxDone) => ~ENABLED ShutdownTimer)
    /\ [][(sdPc = "force" /\ sdPc' # "force") => sdPc' = "done"]_vars

\* C19, as progress: under FairAll no goroutine stays for ever at such a
\* point. TLC finds no violation in the 2,847,468 states of MaxConns = 2.
C19_Progress == Busy ~> ~Busy

\* Close and Shutdown both hold the read lock, Shutdown in its forced closing,
\* while one worker waits for the write lock to unregister and the other is
\* about to ask for it.
C19_Witness ==
    /\ clPc = "iter" /\ sdPc = "force"
    /\ \E c, d \in Conns :
          /\ wpc[c] = "unregLock" /\ connsMu.pending = c
          /\ wpc[d] = "unreg"

====
